---- MODULE Spec2Model ----
(***************************************************************************)
(* Model of the agentic planner: Planner.plan / Planner._parse_steps       *)
(* (planner.py) and Executor.execute_plan (main.py).                       *)
(*                                                                         *)
(* Every text of the program is a sequence of one-character strings, so    *)
(* that split, strip, lower, replace, the substring test and the string    *)
(* formatting are computed character by character as Python computes them. *)
(***************************************************************************)
EXTENDS Integers, Sequences, FiniteSets, TLC

VARIABLES
    plans,       \* completed Planner.plan calls, oldest first
    max_steps,   \* Executor.max_steps
    context,     \* Executor.context: key text -> result text
    epc,         \* position of execute_plan: "idle", "loop", "done", or
                 \* "raised" when it ended in an exception
    steps_in,    \* the steps argument of the running execute_plan call
    results,     \* the local list results of execute_plan
    dispatched,  \* the (tool, argument) pairs handed to Tools.execute_tool
    output,      \* the value execute_plan returned
    returned,    \* the values Tools.execute_tool handed back in this run
    tpc,         \* position of the Tools call: "idle", "search", "done", or
                 \* "raised" when it ended in an exception
    tool_call,   \* the running Tools.execute_tool call and the method it chose
    attempt,     \* the loop variable attempt of search_web
    events,      \* requests, sleeps and summarizer calls of the Tools call
    tool_ret,    \* the value the Tools call returned
    cli          \* main(): its position, the trimmed goal, the exit status,
                 \* whether Planner and Executor were constructed

vars == <<plans, max_steps, context, epc, steps_in, results, dispatched, output,
          returned, tpc, tool_call, attempt, events, tool_ret, cli>>

toolVars == <<tpc, tool_call, attempt, events, tool_ret>>

(***************************************************************************)
(* Bounds of the model.                                                    *)
(***************************************************************************)
\* fragments concatenated into one model output
MaxFrags == 4
\* fragments of each of the two model outputs that are compared
MaxPairFrags == 2
\* steps of a plan handed to the executor
MaxPlanLen == 3
\* entries of RelatedTopics in a search response
MaxTopics == 4
\* how far the length of a long text is from max_input_length
MaxSlack == 2
\* summaries in the list the model answers
MaxSummaries == 2
\* steps of a plan handed to an executor that is used again
MaxReusePlanLen == 2
\* how far the length of a long goal is from MAX_GOAL_LENGTH
MaxGoalSlack == 1

(***************************************************************************)
(* Literals of the program.                                                *)
(***************************************************************************)
SEARCH_WEB == <<"s","e","a","r","c","h","_","w","e","b">>
SUMMARIZE_TEXT == <<"s","u","m","m","a","r","i","z","e","_","t","e","x","t">>
SEARCH_RESULTS == <<"s","e","a","r","c","h"," ","r","e","s","u","l","t","s">>
FIND_INFORMATION_ABOUT ==
    <<"F","i","n","d"," ","i","n","f","o","r","m","a","t","i","o","n"," ",
      "a","b","o","u","t"," ">>
RESEARCH == <<"R","e","s","e","a","r","c","h"," ">>
EXPLAIN == <<"E","x","p","l","a","i","n"," ">>
DEFAULT_MAX_STEPS == 10

(***************************************************************************)
(* Python string operations.                                               *)
(***************************************************************************)
\* the ASCII letters str.lower() changes
LowerOf ==
    [A |-> "a", B |-> "b", C |-> "c", D |-> "d", E |-> "e", F |-> "f",
     G |-> "g", H |-> "h", I |-> "i", J |-> "j", K |-> "k", L |-> "l",
     M |-> "m", N |-> "n", O |-> "o", P |-> "p", Q |-> "q", R |-> "r",
     S |-> "s", T |-> "t", U |-> "u", V |-> "v", W |-> "w", X |-> "x",
     Y |-> "y", Z |-> "z"]

LowerChar(c) == IF c \in DOMAIN LowerOf THEN LowerOf[c] ELSE c

\* str.lower()
StrLower(s) == [k \in 1..Len(s) |-> LowerChar(s[k])]

Whitespace == {" ", "\n", "\t", "\r"}

\* str.strip()
StrStrip(s) ==
    LET inner == {k \in 1..Len(s) : s[k] \notin Whitespace}
    IN  IF inner = {} THEN <<>>
        ELSE LET lo == CHOOSE k \in inner : \A m \in inner : k <= m
                 hi == CHOOSE k \in inner : \A m \in inner : k >= m
             IN  SubSeq(s, lo, hi)

\* needle in hay
Contains(hay, needle) ==
    \E k \in 0..(Len(hay) - Len(needle)) : SubSeq(hay, k + 1, k + Len(needle)) = needle

\* str.startswith
StartsWith(s, prefix) ==
    /\ Len(prefix) <= Len(s)
    /\ SubSeq(s, 1, Len(prefix)) = prefix

\* str.replace(old, ""), old not empty: leftmost occurrences, not overlapping
RECURSIVE StrRemove(_, _)
StrRemove(s, old) ==
    IF ~Contains(s, old) THEN s
    ELSE LET at == CHOOSE k \in 0..(Len(s) - Len(old)) :
                       /\ SubSeq(s, k + 1, k + Len(old)) = old
                       /\ \A m \in 0..(k - 1) : SubSeq(s, m + 1, m + Len(old)) # old
         IN  SubSeq(s, 1, at) \o StrRemove(SubSeq(s, at + Len(old) + 1, Len(s)), old)

\* str.split('\n')
RECURSIVE SplitLines(_)
SplitLines(s) ==
    IF \A k \in 1..Len(s) : s[k] # "\n" THEN <<s>>
    ELSE LET nl == CHOOSE k \in 1..Len(s) :
                       /\ s[k] = "\n"
                       /\ \A m \in 1..(k - 1) : s[m] # "\n"
         IN  <<SubSeq(s, 1, nl - 1)>> \o SplitLines(SubSeq(s, nl + 1, Len(s)))

RECURSIVE Concat(_)
Concat(ss) == IF ss = <<>> THEN <<>> ELSE Head(ss) \o Concat(Tail(ss))

\* all sequences over S of length at most n
SeqsUpTo(S, n) == UNION {[1..k -> S] : k \in 0..n}

(***************************************************************************)
(* Planner (planner.py).                                                   *)
(***************************************************************************)
Step(tool, argument) == [tool |-> tool, argument |-> argument]

\* planner.py:64
DeriveSearchQuery(goal) ==
    StrRemove(StrRemove(StrRemove(goal, FIND_INFORMATION_ABOUT), RESEARCH), EXPLAIN)

\* a fallback that forgets the summarize_text step
FallbackPlan_SearchOnly(search_query) == <<Step(SEARCH_WEB, search_query)>>

\* the hard-coded two-step plan
FallbackPlan(search_query) ==
    <<Step(SEARCH_WEB, search_query), Step(SUMMARIZE_TEXT, SEARCH_RESULTS)>>

\* the loop body without .lower()
LineSteps_CaseSensitive(raw_line, search_query) ==
    LET line == StrStrip(raw_line)
    IN  IF line = <<>> THEN <<>>
        ELSE (IF Contains(line, SEARCH_WEB)
              THEN <<Step(SEARCH_WEB, search_query)>> ELSE <<>>)
             \o
             (IF Contains(line, SUMMARIZE_TEXT)
              THEN <<Step(SUMMARIZE_TEXT, SEARCH_RESULTS)>> ELSE <<>>)

\* the loop body passing on the text of the line as the search argument
LineSteps_ModelArgument(raw_line, search_query) ==
    LET line == StrStrip(raw_line)
    IN  IF line = <<>> THEN <<>>
        ELSE LET lowered == StrLower(line)
             IN  (IF Contains(lowered, SEARCH_WEB)
                  THEN <<Step(SEARCH_WEB, line)>> ELSE <<>>)
                 \o
                 (IF Contains(lowered, SUMMARIZE_TEXT)
                  THEN <<Step(SUMMARIZE_TEXT, SEARCH_RESULTS)>> ELSE <<>>)

\* the loop body appending the search_web step twice
LineSteps_Twice(raw_line, search_query) ==
    LET line == StrStrip(raw_line)
    IN  IF line = <<>> THEN <<>>
        ELSE LET lowered == StrLower(line)
             IN  (IF Contains(lowered, SEARCH_WEB)
                  THEN <<Step(SEARCH_WEB, search_query),
                         Step(SEARCH_WEB, search_query)>> ELSE <<>>)
                 \o
                 (IF Contains(lowered, SUMMARIZE_TEXT)
                  THEN <<Step(SUMMARIZE_TEXT, SEARCH_RESULTS)>> ELSE <<>>)

\* one iteration of the loop of _parse_steps: the steps one line appends
LineSteps(raw_line, search_query) ==
    LET line == StrStrip(raw_line)
    IN  IF line = <<>> THEN <<>>
        ELSE LET lowered == StrLower(line)
             IN  (IF Contains(lowered, SEARCH_WEB)
                  THEN <<Step(SEARCH_WEB, search_query)>> ELSE <<>>)
                 \o
                 (IF Contains(lowered, SUMMARIZE_TEXT)
                  THEN <<Step(SUMMARIZE_TEXT, SEARCH_RESULTS)>> ELSE <<>>)

RECURSIVE ScanLines(_, _)
ScanLines(lines, search_query) ==
    IF lines = <<>> THEN <<>>
    ELSE LineSteps(Head(lines), search_query) \o ScanLines(Tail(lines), search_query)

_parse_steps(plan_text, search_query) ==
    LET steps == ScanLines(SplitLines(plan_text), search_query)
    IN  IF steps = <<>> THEN FallbackPlan(search_query) ELSE steps

\* an except clause that lets the exception through
PlanExcept_Reraise(search_query) == [status |-> "raised", steps |-> <<>>]

\* the except clause of plan
PlanExcept(search_query) ==
    [status |-> "returned", steps |-> FallbackPlan(search_query)]

\* the try block of plan, for a generator call that returned text
PlanTry(generated_text, search_query) ==
    LET steps == _parse_steps(generated_text, search_query)
    IN  [status |-> "returned",
         steps  |-> IF steps = <<>> THEN FallbackPlan(search_query) ELSE steps]

\* What one call of the generator does: it returns a text, it raises, or it
\* returns something response[0]['generated_text'] cannot be read from.
TextOutcome(t) == [kind |-> "text", text |-> t]
RaiseOutcome == [kind |-> "raise", text |-> <<>>]
MalformedOutcome == [kind |-> "malformed", text |-> <<>>]

plan(goal, outcome) ==
    LET search_query == DeriveSearchQuery(goal)
        r == IF outcome.kind = "text"
             THEN PlanTry(outcome.text, search_query)
             ELSE PlanExcept(search_query)
    IN  [goal |-> goal, search_query |-> search_query, outcome |-> outcome,
         status |-> r.status, steps |-> r.steps]

(***************************************************************************)
(* Inputs of the planner.                                                  *)
(***************************************************************************)
MIXED_SEARCH_WEB == <<"S","e","a","r","c","h","_","W","E","B">>
INVALID_TOOL == <<"i","n","v","a","l","i","d","_","t","o","o","l">>
ARGUMENT_TEXT == <<"(","A","I"," ","n","e","w","s",")">>

OutputFrags ==
    {SEARCH_WEB, SUMMARIZE_TEXT, MIXED_SEARCH_WEB, INVALID_TOOL, ARGUMENT_TEXT,
     <<"\n">>, <<" ">>}

Texts(n) == {Concat(fs) : fs \in SeqsUpTo(OutputFrags, n)}

Outcomes(n) == {TextOutcome(t) : t \in Texts(n)} \cup {RaiseOutcome, MalformedOutcome}

PlannerOutcomes == Outcomes(MaxFrags)

PairOutcomes == Outcomes(MaxPairFrags)

AI == <<"A","I">>
LOWER_RESEARCH == <<"r","e","s","e","a","r","c","h"," ">>

Goals ==
    {<<>>,
     AI,
     FIND_INFORMATION_ABOUT,
     FIND_INFORMATION_ABOUT \o AI,
     RESEARCH \o AI,
     EXPLAIN \o AI,
     LOWER_RESEARCH \o AI,
     AI \o <<" ">> \o RESEARCH \o AI,
     RESEARCH \o EXPLAIN \o AI}

PairGoals == {RESEARCH \o AI, AI}

(***************************************************************************)
(* State machine.                                                          *)
(***************************************************************************)
ExecutorIdle ==
    /\ context = <<>>
    /\ epc = "idle"
    /\ steps_in = <<>>
    /\ results = <<>>
    /\ dispatched = <<>>
    /\ output = <<>>
    /\ returned = <<>>

\* no call of Tools is running
ToolsIdle ==
    /\ tpc = "idle"
    /\ tool_call = <<>>
    /\ attempt = 0
    /\ events = <<>>
    /\ tool_ret = <<>>

\* main() has not been entered
CliIdle == cli = [pc |-> "start", goal |-> <<>>, status |-> 0, constructed |-> FALSE]

InitPlanner ==
    /\ plans = <<>>
    /\ max_steps = DEFAULT_MAX_STEPS
    /\ ExecutorIdle
    /\ ToolsIdle
    /\ CliIdle

execVars ==
    <<max_steps, context, epc, steps_in, results, dispatched, output, returned>>

\* one call planner.plan(goal)
PlanCall(goal, outcome) ==
    /\ plans' = Append(plans, plan(goal, outcome))
    /\ UNCHANGED <<execVars, toolVars, cli>>

\* a planner that is asked for one plan
NextPlanner ==
    /\ plans = <<>>
    /\ \E goal \in Goals, outcome \in PlannerOutcomes : PlanCall(goal, outcome)

SpecPlanner == InitPlanner /\ [][NextPlanner]_vars

\* a planner that is asked twice for a plan of the same goal
NextPlanPair ==
    /\ Len(plans) < 2
    /\ \E goal \in PairGoals, outcome \in PairOutcomes :
           /\ plans # <<>> => goal = plans[1].goal
           /\ PlanCall(goal, outcome)

SpecPlanPair == InitPlanner /\ [][NextPlanPair]_vars

(***************************************************************************)
(* Executor (main.py).                                                     *)
(***************************************************************************)
LAST_SEARCH_RESULT ==
    <<"l","a","s","t","_","s","e","a","r","c","h","_","r","e","s","u","l","t">>

\* Python's None: no text, not even the empty one
None == <<"None">>

Digits == <<"0","1","2","3","4","5","6","7","8","9">>

\* str(n) for n >= 0, as the f-strings format i+1
RECURSIVE IntToStr(_)
IntToStr(n) ==
    IF n < 10 THEN <<Digits[n + 1]>>
    ELSE IntToStr(n \div 10) \o <<Digits[(n % 10) + 1]>>

\* sep.join(parts)
RECURSIVE Join(_, _)
Join(sep, parts) ==
    IF parts = <<>> THEN <<>>
    ELSE IF Len(parts) = 1 THEN parts[1]
    ELSE parts[1] \o sep \o Join(sep, Tail(parts))

Min(a, b) == IF a <= b THEN a ELSE b
Max(a, b) == IF a >= b THEN a ELSE b

\* s[:m]: a negative m counts from the end
SlicePrefix(s, m) ==
    IF m >= 0 THEN SubSeq(s, 1, Min(m, Len(s)))
    ELSE SubSeq(s, 1, Max(Len(s) + m, 0))

\* f"step_{n}_result"
StepKey(n) ==
    <<"s","t","e","p","_">> \o IntToStr(n) \o <<"_","r","e","s","u","l","t">>

\* f"Step {n} result:\n{result}"
StepReport(n, result) ==
    <<"S","t","e","p"," ">> \o IntToStr(n)
        \o <<" ","r","e","s","u","l","t",":","\n">> \o result

\* f"Tool {tool} returned no result"
NoResultText(tool) ==
    <<"T","o","o","l"," ">> \o tool
        \o <<" ","r","e","t","u","r","n","e","d"," ","n","o"," ",
             "r","e","s","u","l","t">>

\* a substitution that does not look at the argument
SubstituteArgument_Always(argument, ctx) ==
    IF LAST_SEARCH_RESULT \in DOMAIN ctx THEN ctx[LAST_SEARCH_RESULT] ELSE argument

\* main.py:62-66
SubstituteArgument(argument, ctx) ==
    IF argument = SEARCH_RESULTS /\ LAST_SEARCH_RESULT \in DOMAIN ctx
    THEN ctx[LAST_SEARCH_RESULT]
    ELSE argument

\* a test that takes the empty text for no result too
HandleNone_Falsy(tool, result) ==
    IF result = None \/ result = <<>> THEN NoResultText(tool) ELSE result

\* main.py:77-78
HandleNone(tool, result) == IF result = None THEN NoResultText(tool) ELSE result

\* ctx[key] = value
DictSet(ctx, key, value) ==
    [k \in DOMAIN ctx \cup {key} |-> IF k = key THEN value ELSE ctx[k]]

\* a store that overwrites last_search_result after every tool
StoreResult_EveryTool(ctx, n, tool, result) ==
    DictSet(DictSet(ctx, StepKey(n), result), LAST_SEARCH_RESULT, result)

\* a store that keeps a failed search out of last_search_result
StoreResult_SkipFailures(ctx, n, tool, result) ==
    LET stored == DictSet(ctx, StepKey(n), result)
    IN  IF tool = SEARCH_WEB
           /\ ~StartsWith(result, <<"S","e","a","r","c","h"," ","f","a","i","l","e","d">>)
        THEN DictSet(stored, LAST_SEARCH_RESULT, result)
        ELSE stored

\* main.py:90-94
StoreResult(ctx, n, tool, result) ==
    LET stored == DictSet(ctx, StepKey(n), result)
    IN  IF tool = SEARCH_WEB THEN DictSet(stored, LAST_SEARCH_RESULT, result)
        ELSE stored

\* an aggregation that labels a single result too
Aggregate_AlwaysLabelled(rs) ==
    Join(<<"\n","\n">>, [n \in 1..Len(rs) |-> StepReport(n, rs[n])])

\* main.py:103-106
Aggregate(rs) ==
    IF Len(rs) = 1 THEN rs[1]
    ELSE Join(<<"\n","\n">>, [n \in 1..Len(rs) |-> StepReport(n, rs[n])])

(***************************************************************************)
(* Inputs of the executor.                                                 *)
(***************************************************************************)
RESULT_ONE == <<"r","1">>
RESULT_TWO == <<"r","2">>

\* what Tools.execute_tool may hand back
ToolReturns == {RESULT_ONE, RESULT_TWO, <<>>, None}

StepKinds ==
    {Step(tool, argument) : tool \in {SEARCH_WEB, SUMMARIZE_TEXT},
                            argument \in {SEARCH_RESULTS, AI}}

ExecPlans == SeqsUpTo(StepKinds, MaxPlanLen)

MaxStepsValues == (0 - MaxPlanLen)..(MaxPlanLen + 1)

(***************************************************************************)
(* State machine of one Executor.                                          *)
(***************************************************************************)
InitExecutor ==
    /\ plans = <<>>
    /\ max_steps \in MaxStepsValues
    /\ ExecutorIdle
    /\ ToolsIdle
    /\ CliIdle

\* the steps the loop of execute_plan iterates over
Truncated == SlicePrefix(steps_in, max_steps)

\* execute_plan(steps, goal) is called: main.py:54
ExecStart(steps) ==
    /\ epc = "idle"
    /\ epc' = "loop"
    /\ steps_in' = steps
    /\ results' = <<>>
    /\ dispatched' = <<>>
    /\ returned' = <<>>
    /\ UNCHANGED <<cli, plans, max_steps, context, output, toolVars>>

\* one iteration of the loop, given what execute_tool handed back:
\* main.py:56-96
ExecIteration(value) ==
    /\ epc = "loop"
    /\ Len(results) < Len(Truncated)
    /\ LET n == Len(results) + 1
           step == Truncated[n]
           argument == SubstituteArgument(step.argument, context)
           result == HandleNone(step.tool, value)
       IN  /\ dispatched' = Append(dispatched, Step(step.tool, argument))
           /\ results' = Append(results, result)
           /\ context' = StoreResult(context, n, step.tool, result)
    /\ returned' = Append(returned, value)
    /\ UNCHANGED <<cli, plans, max_steps, epc, steps_in, output>>

\* one iteration of the loop with a tool that answers at once
ExecStep(value) ==
    /\ ExecIteration(value)
    /\ UNCHANGED toolVars

\* the loop is over: main.py:102-106
ExecFinish ==
    /\ epc = "loop"
    /\ Len(results) = Len(Truncated)
    /\ epc' = "done"
    /\ output' = Aggregate(results)
    /\ UNCHANGED <<cli, plans, max_steps, context, steps_in, results, dispatched,
                   returned, toolVars>>

NextExecutor ==
    \/ \E steps \in ExecPlans : ExecStart(steps)
    \/ \E value \in ToolReturns : ExecStep(value)
    \/ ExecFinish

SpecExecutor == InitExecutor /\ [][NextExecutor]_vars

(***************************************************************************)
(* State machine of one Executor whose execute_plan is called again and    *)
(* again: the fields of the object outlive a call, its locals do not.      *)
(***************************************************************************)
ReusePlans == SeqsUpTo(StepKinds, MaxReusePlanLen)

InitReuse ==
    /\ plans = <<>>
    /\ max_steps = DEFAULT_MAX_STEPS
    /\ ExecutorIdle
    /\ ToolsIdle
    /\ CliIdle

\* execute_plan has returned its output: main.py:106
ExecReturn ==
    /\ epc = "done"
    /\ epc' = "idle"
    /\ steps_in' = <<>>
    /\ results' = <<>>
    /\ dispatched' = <<>>
    /\ returned' = <<>>
    /\ output' = <<>>
    /\ UNCHANGED <<cli, plans, max_steps, context, toolVars>>

NextReuse ==
    \/ \E steps \in ReusePlans : ExecStart(steps)
    \/ \E value \in ToolReturns : ExecStep(value)
    \/ ExecFinish
    \/ ExecReturn

SpecExecutorReuse == InitReuse /\ [][NextReuse]_vars

(***************************************************************************)
(* Tools.search_web (tools.py).  Printing under verbose is left out.       *)
(***************************************************************************)
MAX_RETRY_ATTEMPTS == 3
RETRY_DELAY_SECONDS == 1

\* f"Search failed after {max_retries} attempts: Network error"
SearchFailedAfterText(max_retries) ==
    <<"S","e","a","r","c","h"," ","f","a","i","l","e","d"," ","a","f","t",
      "e","r"," ">> \o IntToStr(max_retries)
        \o <<" ","a","t","t","e","m","p","t","s",":"," ","N","e","t","w","o",
             "r","k"," ","e","r","r","o","r">>

\* f"Search failed: {str(e)}"
SearchFailedText(message) ==
    <<"S","e","a","r","c","h"," ","f","a","i","l","e","d",":"," ">> \o message

\* f"No detailed results found for '{query}'"
NoResultsText(query) ==
    <<"N","o"," ","d","e","t","a","i","l","e","d"," ","r","e","s","u","l",
      "t","s"," ","f","o","u","n","d"," ","f","o","r"," ","'">>
        \o query \o <<"'">>

ABSTRACT_LABEL == <<"A","b","s","t","r","a","c","t",":"," ">>
ANSWER_LABEL == <<"A","n","s","w","e","r",":"," ">>
RELATED_LABEL == <<"R","e","l","a","t","e","d",":"," ">>

\* the truth value of dict.get(key): a missing key, None and "" are false
Truthy(value) == value # None /\ value # <<>>

\* a related-topics loop that looks at every topic
RelatedLines_All(topics) ==
    LET kept == SelectSeq(topics, LAMBDA topic : topic.isdict /\ Truthy(topic.Text))
    IN  [n \in 1..Len(kept) |-> RELATED_LABEL \o kept[n].Text]

\* tools.py:126-128
RelatedLines(topics) ==
    LET first == SlicePrefix(topics, 3)
        kept == SelectSeq(first, LAMBDA topic : topic.isdict /\ Truthy(topic.Text))
    IN  [n \in 1..Len(kept) |-> RELATED_LABEL \o kept[n].Text]

\* the list results: tools.py:107-128
ResponseSections(data) ==
    (IF Truthy(data.Abstract) THEN <<ABSTRACT_LABEL \o data.Abstract>> ELSE <<>>)
        \o (IF Truthy(data.Answer) THEN <<ANSWER_LABEL \o data.Answer>> ELSE <<>>)
        \o (IF data.RelatedTopics # <<>> THEN RelatedLines(data.RelatedTopics)
            ELSE <<>>)

\* tools.py:130-139
FormatResponse(data, query) ==
    IF ResponseSections(data) = <<>> THEN NoResultsText(query)
    ELSE Join(<<"\n">>, ResponseSections(data))

\* the exceptions of the first except clause: a connection error or a
\* timeout of requests.get, an HTTP error status of raise_for_status, a
\* body response.json cannot decode
RetryableErrors == {"network", "http", "decode"}

\* an except clause that retries after every exception
IsRetryable_Any(kind) == TRUE

\* tools.py:88
IsRetryable(kind) == kind \in RetryableErrors

\* the log entries of one request with what it met, and of one sleep
Request(query, outcome) ==
    [kind |-> "request", query |-> query, outcome |-> outcome]
Sleep(seconds) == [kind |-> "sleep", seconds |-> seconds]

\* a handler that sleeps after the last attempt too
RetrySleeps_Always(att, max_retries) == <<Sleep(RETRY_DELAY_SECONDS)>>

\* tools.py:89-93
RetrySleeps(att, max_retries) ==
    IF att < max_retries - 1 THEN <<Sleep(RETRY_DELAY_SECONDS)>> ELSE <<>>

\* a handler that takes no attempt for the last
IsLastAttempt_Never(att, max_retries) == FALSE

\* the else branch of tools.py:89-96
IsLastAttempt(att, max_retries) == ~(att < max_retries - 1)

\* responses that raise_for_status and response.json accept but that
\* tools.py:107-128, which no try block covers, cannot read: a body that
\* is a JSON array (data.get, tools.py:110), an object whose RelatedTopics
\* is a number (len, tools.py:123)
UnreadableBodies == {"not_object", "bad_topics"}

\* str(e) of the exception such a body ends in
ResponseError(kind) ==
    IF kind = "not_object"
    THEN <<"'","l","i","s","t","'"," ","o","b","j","e","c","t"," ","h","a","s",
           " ","n","o"," ","a","t","t","r","i","b","u","t","e"," ","'","g","e",
           "t","'">>
    ELSE <<"o","b","j","e","c","t"," ","o","f"," ","t","y","p","e"," ","'","i",
           "n","t","'"," ","h","a","s"," ","n","o"," ","l","e","n","(",")">>

\* one iteration of the retry loop and, when it leaves the loop, the rest of
\* search_web: what it logs, whether search_web returns or raises, and what
SearchIteration(query, att, max_retries, outcome) ==
    IF outcome.kind = "ok"
    THEN [logged |-> <<Request(query, outcome)>>, returns |-> TRUE,
          raises |-> FALSE, value |-> FormatResponse(outcome.data, query)]
    ELSE IF outcome.kind \in UnreadableBodies
    THEN [logged |-> <<Request(query, outcome)>>, returns |-> FALSE,
          raises |-> TRUE, value |-> ResponseError(outcome.kind)]
    ELSE IF IsRetryable(outcome.kind)
    THEN [logged |-> <<Request(query, outcome)>>
                         \o RetrySleeps(att, max_retries),
          returns |-> IsLastAttempt(att, max_retries), raises |-> FALSE,
          value |-> SearchFailedAfterText(max_retries)]
    ELSE [logged |-> <<Request(query, outcome)>>, returns |-> TRUE,
          raises |-> FALSE, value |-> SearchFailedText(outcome.message)]

(***************************************************************************)
(* Tools.summarize_text (tools.py).                                        *)
(***************************************************************************)
max_input_length == 800

NO_TEXT_PROVIDED ==
    <<"N","o"," ","t","e","x","t"," ","p","r","o","v","i","d","e","d"," ",
      "t","o"," ","s","u","m","m","a","r","i","z","e">>

SUMMARY_NOT_GENERATED ==
    <<"S","u","m","m","a","r","y"," ","c","o","u","l","d"," ","n","o","t",
      " ","b","e"," ","g","e","n","e","r","a","t","e","d">>

\* f"Summarization failed: {str(e)}"
SummarizationFailedText(message) ==
    <<"S","u","m","m","a","r","i","z","a","t","i","o","n"," ","f","a","i",
      "l","e","d",":"," ">> \o message

ELLIPSIS == <<".",".",".">>

\* a test that takes only the empty text for blank
IsBlank_EmptyOnly(text) == text = <<>>

\* not text.strip(): tools.py:151
IsBlank(text) == StrStrip(text) = <<>>

\* an input that is handed on whole
TruncateInput_Never(text) == text

\* tools.py:159-162
TruncateInput(text) ==
    IF Len(text) > max_input_length
    THEN SlicePrefix(text, max_input_length) \o ELLIPSIS
    ELSE text

\* a reading of the model's answer that takes the last summary
SummaryOf_Last(outcome) ==
    IF outcome.kind = "raise" THEN SummarizationFailedText(outcome.message)
    ELSE IF outcome.kind = "list" /\ outcome.summaries # <<>>
    THEN outcome.summaries[Len(outcome.summaries)]
    ELSE SUMMARY_NOT_GENERATED

\* tools.py:170-186, from the call of the model on
SummaryOf(outcome) ==
    IF outcome.kind = "raise" THEN SummarizationFailedText(outcome.message)
    ELSE IF outcome.kind = "list" /\ outcome.summaries # <<>>
    THEN outcome.summaries[1]
    ELSE SUMMARY_NOT_GENERATED

\* the log entry of one call of the model with what it answered
SummarizerCall(text, outcome) ==
    [kind |-> "summarizer", text |-> text, outcome |-> outcome]

\* summarize_text(text) with a model that answers outcome: what it logs and
\* what it returns
summarize_text(text, outcome) ==
    IF IsBlank(text) THEN [logged |-> <<>>, value |-> NO_TEXT_PROVIDED]
    ELSE [logged |-> <<SummarizerCall(TruncateInput(text), outcome)>>,
          value |-> SummaryOf(outcome)]

(***************************************************************************)
(* Tools.execute_tool (tools.py).                                          *)
(***************************************************************************)
\* f"Unknown tool: {tool_name}"
UnknownToolText(tool_name) ==
    <<"U","n","k","n","o","w","n"," ","t","o","o","l",":"," ">> \o tool_name

\* a dispatcher that searches for every name it does not know
Route_SearchByDefault(tool_name) ==
    IF tool_name = SUMMARIZE_TEXT THEN "summarize_text" ELSE "search_web"

\* the method execute_tool calls: tools.py:198-203
Route(tool_name) ==
    IF tool_name = SEARCH_WEB THEN "search_web"
    ELSE IF tool_name = SUMMARIZE_TEXT THEN "summarize_text"
    ELSE "none"

\* execute_tool(tool_name, argument) is called; summarize_text answers
\* within the call, search_web enters its retry loop
ExecuteTool(tool_name, argument, model_outcome) ==
    /\ tpc = "idle"
    /\ tool_call' = [tool_name |-> tool_name, argument |-> argument,
                     method |-> Route(tool_name), passed |-> argument]
    /\ attempt' = 0
    /\ IF Route(tool_name) = "search_web"
       THEN /\ tpc' = "search"
            /\ events' = <<>>
            /\ tool_ret' = <<>>
       ELSE IF Route(tool_name) = "summarize_text"
       THEN /\ tpc' = "done"
            /\ events' = summarize_text(argument, model_outcome).logged
            /\ tool_ret' = summarize_text(argument, model_outcome).value
       ELSE /\ tpc' = "done"
            /\ events' = <<>>
            /\ tool_ret' = UnknownToolText(tool_name)

\* one attempt of search_web: tools.py:60-98, and tools.py:107-139 when the
\* attempt succeeds
SearchAttempt(outcome) ==
    /\ tpc = "search"
    /\ attempt < MAX_RETRY_ATTEMPTS
    /\ LET it == SearchIteration(tool_call.passed, attempt,
                                 MAX_RETRY_ATTEMPTS, outcome)
       IN  /\ events' = events \o it.logged
           /\ IF it.returns \/ it.raises
              THEN /\ tpc' = IF it.raises THEN "raised" ELSE "done"
                   /\ tool_ret' = it.value
                   /\ attempt' = attempt
              ELSE /\ attempt' = attempt + 1
                   /\ UNCHANGED <<tpc, tool_ret>>
    /\ UNCHANGED tool_call

(***************************************************************************)
(* Inputs of the tools: what the search API, the summarization model and   *)
(* the caller of execute_tool may supply.                                  *)
(***************************************************************************)
ABSTRACT_BODY == <<"a","b">>
ANSWER_BODY == <<"4","2">>
TOPIC_ONE == <<"t","1">>
TOPIC_TWO == <<"t","2">>

\* an entry of RelatedTopics: a dict with or without Text, or no dict
TopicKinds ==
    {[isdict |-> TRUE, Text |-> TOPIC_ONE], [isdict |-> TRUE, Text |-> TOPIC_TWO],
     [isdict |-> TRUE, Text |-> None], [isdict |-> FALSE, Text |-> None]}

\* the decoded JSON object; None stands for a missing key of a text, the
\* empty list for a missing RelatedTopics
SearchData ==
    [Abstract : {None, <<>>, ABSTRACT_BODY},
     Answer : {None, <<>>, ANSWER_BODY},
     RelatedTopics : SeqsUpTo(TopicKinds, MaxTopics)]

ERROR_MESSAGE == <<"b","o","o","m">>

\* what one attempt of search_web may meet
SearchOutcomes ==
    {[kind |-> "ok", message |-> <<>>, data |-> d] : d \in SearchData}
        \cup {[kind |-> k, message |-> <<>>, data |-> None] : k \in RetryableErrors}
        \cup {[kind |-> "other", message |-> m, data |-> None] :
                  m \in {<<>>, ERROR_MESSAGE}}
        \cup {[kind |-> k, message |-> <<>>, data |-> None] : k \in UnreadableBodies}

SUMMARY_ONE == <<"s","1">>
SUMMARY_TWO == <<"s","2">>

\* what the summarization model may answer
ModelOutcomes ==
    {[kind |-> "list", summaries |-> ss, message |-> <<>>] :
         ss \in SeqsUpTo({SUMMARY_ONE, SUMMARY_TWO, <<>>}, MaxSummaries)}
        \cup {[kind |-> "none", summaries |-> <<>>, message |-> <<>>]}
        \cup {[kind |-> "raise", summaries |-> <<>>, message |-> m] :
                  m \in {<<>>, ERROR_MESSAGE}}

UNKNOWN_TOOL == <<"u","n","k","n","o","w","n","_","t","o","o","l">>

ToolNames == {SEARCH_WEB, SUMMARIZE_TEXT, UNKNOWN_TOOL, MIXED_SEARCH_WEB}

SearchQueries == {AI, <<>>}

\* texts of a length around max_input_length: letters only, blanks only,
\* and blanks that end in one letter
LongTexts ==
    {[k \in 1..n |-> fill] :
         n \in (max_input_length - MaxSlack)..(max_input_length + MaxSlack),
         fill \in {"a", " "}}
        \cup {[k \in 1..n |-> IF k = n THEN "z" ELSE " "] :
                  n \in (max_input_length - MaxSlack)..(max_input_length + MaxSlack)}

SummarizeTexts ==
    {<<>>, <<" ">>, <<"\n","\t">>, AI, <<" ","A"," ">>} \cup LongTexts

ArgumentsOf(tool_name) ==
    IF tool_name = SUMMARIZE_TEXT THEN SummarizeTexts ELSE SearchQueries

(***************************************************************************)
(* State machine of one call of Tools.execute_tool.                        *)
(***************************************************************************)
InitTools ==
    /\ plans = <<>>
    /\ max_steps = DEFAULT_MAX_STEPS
    /\ ExecutorIdle
    /\ ToolsIdle
    /\ CliIdle

NextTools ==
    \/ /\ tpc = "idle"
       /\ \E tool_name \in ToolNames :
              \E argument \in ArgumentsOf(tool_name), model_outcome \in ModelOutcomes :
                  /\ ExecuteTool(tool_name, argument, model_outcome)
                  /\ UNCHANGED <<cli, plans, execVars>>
    \/ /\ tpc = "search"
       /\ \E outcome \in SearchOutcomes :
              /\ SearchAttempt(outcome)
              /\ UNCHANGED <<cli, plans, execVars>>

SpecTools == InitTools /\ [][NextTools]_vars

(***************************************************************************)
(* State machine of one call of search_web alone, with one response of     *)
(* each shape per attempt.                                                 *)
(***************************************************************************)
RetryData ==
    {d \in SearchData :
         /\ d.Abstract \in {None, ABSTRACT_BODY}
         /\ d.Answer = None
         /\ d.RelatedTopics \in {<<>>, <<[isdict |-> TRUE, Text |-> TOPIC_ONE]>>}}

RetryOutcomes ==
    {o \in SearchOutcomes : o.kind = "ok" => o.data \in RetryData}

SearchCall ==
    /\ tpc = "idle"
    /\ \E tool_name \in ToolNames, argument \in SearchQueries :
           /\ ExecuteTool(tool_name, argument, [kind |-> "none", summaries |-> <<>>, message |-> <<>>])
           /\ tpc' = "search"
    /\ UNCHANGED <<cli, plans, execVars>>

SearchRetry ==
    /\ \E outcome \in RetryOutcomes : SearchAttempt(outcome)
    /\ UNCHANGED <<cli, plans, execVars>>

NextSearch == SearchCall \/ SearchRetry

SpecSearch == InitTools /\ [][NextSearch]_vars

\* the code of a call runs on: requests.get is given a timeout and
\* time.sleep a delay, so every attempt ends, and nothing else waits
FairSpecSearch == SpecSearch /\ WF_vars(SearchRetry)

(***************************************************************************)
(* State machine of one Executor that runs its steps through Tools.        *)
(***************************************************************************)
AgentStepKinds ==
    {Step(SEARCH_WEB, AI), Step(SEARCH_WEB, SEARCH_RESULTS),
     Step(SUMMARIZE_TEXT, SEARCH_RESULTS), Step(UNKNOWN_TOOL, AI)}

AgentPlans == SeqsUpTo(AgentStepKinds, MaxPlanLen)

\* a response with an abstract, one without any section, a network error,
\* another exception, a body that is a JSON array
AgentSearchOutcomes ==
    {[kind |-> "ok", message |-> <<>>,
      data |-> [Abstract |-> ABSTRACT_BODY, Answer |-> None, RelatedTopics |-> <<>>]],
     [kind |-> "ok", message |-> <<>>,
      data |-> [Abstract |-> None, Answer |-> None, RelatedTopics |-> <<>>]],
     [kind |-> "network", message |-> <<>>, data |-> None],
     [kind |-> "other", message |-> ERROR_MESSAGE, data |-> None],
     [kind |-> "not_object", message |-> <<>>, data |-> None]}

\* one summary, an exception of the model
AgentModelOutcomes ==
    {[kind |-> "list", summaries |-> <<SUMMARY_ONE>>, message |-> <<>>],
     [kind |-> "raise", summaries |-> <<>>, message |-> ERROR_MESSAGE]}

InitAgent ==
    /\ plans = <<>>
    /\ max_steps \in MaxStepsValues
    /\ ExecutorIdle
    /\ ToolsIdle
    /\ CliIdle

\* main.py:56-73: the loop substitutes the argument and calls execute_tool
AgentDispatch ==
    /\ epc = "loop"
    /\ tpc = "idle"
    /\ Len(results) < Len(Truncated)
    /\ LET step == Truncated[Len(results) + 1]
           argument == SubstituteArgument(step.argument, context)
       IN  \E model_outcome \in AgentModelOutcomes :
               ExecuteTool(step.tool, argument, model_outcome)
    /\ UNCHANGED <<cli, plans, execVars>>

AgentSearch ==
    /\ tpc = "search"
    /\ \E outcome \in AgentSearchOutcomes : SearchAttempt(outcome)
    /\ UNCHANGED <<cli, plans, execVars>>

\* main.py:73-96: execute_tool has returned, the loop records the result
AgentRecord ==
    /\ tpc = "done"
    /\ ExecIteration(tool_ret)
    /\ tpc' = "idle"
    /\ tool_call' = <<>>
    /\ attempt' = 0
    /\ events' = <<>>
    /\ tool_ret' = <<>>

\* main.py:73: execute_tool has raised; execute_plan has no try block, so
\* the exception leaves it before the step is recorded
AgentAbort ==
    /\ tpc = "raised"
    /\ epc = "loop"
    /\ epc' = "raised"
    /\ tpc' = "idle"
    /\ tool_call' = <<>>
    /\ attempt' = 0
    /\ events' = <<>>
    /\ tool_ret' = <<>>
    /\ UNCHANGED <<cli, plans, max_steps, context, steps_in, results, dispatched,
                   output, returned>>

AgentFinish ==
    /\ tpc = "idle"
    /\ ExecFinish

NextAgent ==
    \/ \E steps \in AgentPlans : ExecStart(steps)
    \/ AgentDispatch
    \/ AgentSearch
    \/ AgentRecord
    \/ AgentAbort
    \/ AgentFinish

SpecAgent == InitAgent /\ [][NextAgent]_vars

(***************************************************************************)
(* main() (main.py): validation of the goal, then plan and execute.        *)
(***************************************************************************)
MIN_GOAL_LENGTH == 5
MAX_GOAL_LENGTH == 200

\* the grave accent, a character that a string of this module cannot hold
GRAVE == "grave"

\* main.py:150
BLOCKLIST == {"<", ">", "&", "|", ";", GRAVE}

\* main.py:156
math_patterns ==
    {<<"c","a","l","c","u","l","a","t","e">>, <<"c","o","m","p","u","t","e">>,
     <<"s","o","l","v","e">>, <<"=">>, <<"+">>, <<"-">>, <<"*">>, <<"/">>,
     <<"m","a","t","h">>}

\* main.py:157
code_patterns ==
    {<<"w","r","i","t","e"," ","c","o","d","e">>,
     <<"w","r","i","t","e"," ","p","y","t","h","o","n">>,
     <<"w","r","i","t","e"," ","j","a","v","a">>,
     <<"i","m","p","l","e","m","e","n","t">>, <<"d","e","b","u","g">>,
     <<"f","i","x"," ","b","u","g">>, <<"p","r","o","g","r","a","m">>}

\* a keyword test that does not lower the goal
MatchesAny_CaseSensitive(goal, patterns) ==
    \E pattern \in patterns : Contains(goal, pattern)

\* any(pattern in goal.lower() for pattern in patterns): main.py:159, 164
MatchesAny(goal, patterns) ==
    \E pattern \in patterns : Contains(StrLower(goal), pattern)

\* the check of main.py:134-167 that rejects the trimmed goal, "none" when
\* every check passes
ValidationError(goal) ==
    IF goal = <<>> THEN "empty"
    ELSE IF Len(goal) < MIN_GOAL_LENGTH THEN "short"
    ELSE IF Len(goal) > MAX_GOAL_LENGTH THEN "long"
    ELSE IF \E k \in DOMAIN goal : goal[k] \in BLOCKLIST THEN "characters"
    ELSE IF MatchesAny(goal, math_patterns) THEN "math"
    ELSE IF MatchesAny(goal, code_patterns) THEN "code"
    ELSE "none"

(***************************************************************************)
(* Inputs of main().                                                       *)
(***************************************************************************)
ABOUT == <<"a","b","o","u","t"," ">>

\* n letters
Letters(n) == [k \in 1..n |-> "a"]

\* the goal argument as typed: blank and short ones, ones of a length around
\* MAX_GOAL_LENGTH with and without blanks around them, ones with a
\* character of the blocklist or a keyword in either case, and good ones
MainGoals ==
    {<<>>, <<" ", " ">>, <<" ">> \o AI \o <<" ">>, Letters(MIN_GOAL_LENGTH - 1),
     Letters(MIN_GOAL_LENGTH), <<" ">> \o Letters(MIN_GOAL_LENGTH - 1) \o <<" ">>}
        \cup {Letters(n) :
                  n \in (MAX_GOAL_LENGTH - MaxGoalSlack)..(MAX_GOAL_LENGTH + MaxGoalSlack)}
        \cup {<<" ">> \o Letters(MAX_GOAL_LENGTH) \o <<"\n">>}
        \cup {ABOUT \o <<c>> \o AI : c \in BLOCKLIST}
        \cup {ABOUT \o pattern \o AI : pattern \in math_patterns \cup code_patterns}
        \cup {<<"C","a","l","c","u","l","a","t","e"," ">> \o AI,
              <<"D","E","B","U","G"," ">> \o AI}
        \cup {RESEARCH \o AI, EXPLAIN \o AI, ABOUT \o AI}

\* the generation model of a run of main(): no text, an exception, one line
\* for each tool
MainOutcomes ==
    {TextOutcome(<<>>), RaiseOutcome,
     TextOutcome(SEARCH_WEB \o <<"\n">> \o SUMMARIZE_TEXT)}

(***************************************************************************)
(* State machine of one run of main().                                     *)
(***************************************************************************)
InitMain ==
    /\ plans = <<>>
    /\ max_steps = DEFAULT_MAX_STEPS
    /\ ExecutorIdle
    /\ ToolsIdle
    /\ CliIdle

\* main.py:133-179: the goal is trimmed and checked; a goal that passes has
\* Planner and Executor constructed, which fails when a model does not load
MainValidate(raw_goal, models_load) ==
    /\ cli.pc = "start"
    /\ LET goal == StrStrip(raw_goal)
       IN  cli' = IF ValidationError(goal) # "none"
                  THEN [pc |-> "exited", goal |-> goal, status |-> 1,
                        constructed |-> FALSE]
                  ELSE IF ~models_load
                  THEN [pc |-> "exited", goal |-> goal, status |-> 1,
                        constructed |-> FALSE]
                  ELSE [pc |-> "running", goal |-> goal, status |-> 0,
                        constructed |-> TRUE]
    /\ UNCHANGED <<plans, execVars, toolVars>>

\* main.py:183
MainPlan ==
    /\ cli.pc = "running"
    /\ plans = <<>>
    /\ \E outcome \in MainOutcomes : PlanCall(cli.goal, outcome)

\* main.py:186-192
MainExecute ==
    /\ cli.pc = "running"
    /\ plans # <<>>
    /\ epc = "idle"
    /\ IF plans[1].steps = <<>>
       THEN /\ cli' = [cli EXCEPT !.pc = "exited", !.status = 1]
            /\ UNCHANGED <<plans, execVars, toolVars>>
       ELSE ExecStart(plans[1].steps)

\* main.py:217-219: an exception that left execute_plan is printed and the
\* status is 1
MainError ==
    /\ cli.pc = "running"
    /\ epc = "raised"
    /\ cli' = [cli EXCEPT !.pc = "exited", !.status = 1]
    /\ UNCHANGED <<plans, execVars, toolVars>>

\* main.py:195-212: the result is printed and main returns
MainReturn ==
    /\ cli.pc = "running"
    /\ epc = "done"
    /\ cli' = [cli EXCEPT !.pc = "exited", !.status = 0]
    /\ UNCHANGED <<plans, execVars, toolVars>>

NextMain ==
    \/ /\ cli.pc = "start"
       /\ \E raw_goal \in MainGoals, models_load \in BOOLEAN :
              MainValidate(raw_goal, models_load)
    \/ MainPlan
    \/ MainExecute
    \/ AgentDispatch
    \/ AgentSearch
    \/ AgentRecord
    \/ AgentAbort
    \/ AgentFinish
    \/ MainError
    \/ MainReturn

SpecMain == InitMain /\ [][NextMain]_vars

(***************************************************************************)
(* Properties of the planner.                                              *)
(***************************************************************************)
ReturnedText(p) == p.outcome.kind = "text"

\* the two-step plan search_web(query) then summarize_text("search results")
IsTwoStepPlan(steps, query) ==
    /\ Len(steps) = 2
    /\ steps[1].tool = SEARCH_WEB
    /\ steps[1].argument = query
    /\ steps[2].tool = SUMMARIZE_TEXT
    /\ steps[2].argument = SEARCH_RESULTS

\* per line of a text: does it name search_web, does it name summarize_text
LineFlags(t) ==
    LET lines == SplitLines(t)
    IN  [k \in DOMAIN lines |->
            [search    |-> Contains(StrLower(lines[k]), SEARCH_WEB),
             summarize |-> Contains(StrLower(lines[k]), SUMMARIZE_TEXT)]]

SearchLines(t) == {k \in DOMAIN LineFlags(t) : LineFlags(t)[k].search}
SummarizeLines(t) == {k \in DOMAIN LineFlags(t) : LineFlags(t)[k].summarize}

\* C1: plan returns normally with a plan of at least one step, whatever the
\* goal and whether the generation model returns a text, returns an empty
\* text, returns an unreadable response or raises.
C1_PlanReturnsNonEmpty ==
    \A k \in DOMAIN plans :
        /\ plans[k].status = "returned"
        /\ Len(plans[k].steps) >= 1

C1_Witness ==
    \E k \in DOMAIN plans :
        /\ plans[k].outcome.kind = "raise"
        /\ plans[k].status = "returned"
        /\ Len(plans[k].steps) = 2

\* C2 as claimed: when search_web and summarize_text both occur in the model
\* output and no line holds both, the plan is exactly search_web then
\* summarize_text.
C2_Original ==
    \A k \in DOMAIN plans :
        LET t == plans[k].outcome.text
        IN  ( /\ ReturnedText(plans[k])
              /\ Contains(t, SEARCH_WEB)
              /\ Contains(t, SUMMARIZE_TEXT)
              /\ SearchLines(t) \cap SummarizeLines(t) = {} )
            => IsTwoStepPlan(plans[k].steps, plans[k].search_query)

\* C2 amended: when exactly one line names search_web and exactly one, later
\* line names summarize_text (in any letter case), the plan is exactly
\* search_web then summarize_text; other tool names contribute no step.
C2_OneLineEachInOrder ==
    \A k \in DOMAIN plans :
        LET t == plans[k].outcome.text
        IN  ( /\ ReturnedText(plans[k])
              /\ \E i \in DOMAIN LineFlags(t), j \in DOMAIN LineFlags(t) :
                    /\ i < j
                    /\ SearchLines(t) = {i}
                    /\ SummarizeLines(t) = {j} )
            => IsTwoStepPlan(plans[k].steps, plans[k].search_query)

C2_Witness ==
    \E k \in DOMAIN plans :
        LET t == plans[k].outcome.text
        IN  /\ ReturnedText(plans[k])
            /\ Contains(t, INVALID_TOOL)
            /\ Contains(t, MIXED_SEARCH_WEB)
            /\ \E i \in DOMAIN LineFlags(t), j \in DOMAIN LineFlags(t) :
                  /\ i < j
                  /\ SearchLines(t) = {i}
                  /\ SummarizeLines(t) = {j}
            /\ IsTwoStepPlan(plans[k].steps, plans[k].search_query)

\* no tool name is recognised anywhere in the text
NoToolNamed(t) ==
    /\ ~Contains(StrLower(t), SEARCH_WEB)
    /\ ~Contains(StrLower(t), SUMMARIZE_TEXT)

\* C3: when the model output names no tool (empty and whitespace-only output
\* included) or the inference call fails, the plan is exactly the fallback
\* search_web(derived query), summarize_text("search results").
C3_FallbackPlan ==
    \A k \in DOMAIN plans :
        (~ReturnedText(plans[k]) \/ NoToolNamed(plans[k].outcome.text))
        => IsTwoStepPlan(plans[k].steps, plans[k].search_query)

C3_Witness ==
    \E k \in DOMAIN plans :
        /\ ReturnedText(plans[k])
        /\ plans[k].outcome.text # <<>>
        /\ StrStrip(plans[k].outcome.text) = <<>>
        /\ plans[k].search_query = AI
        /\ IsTwoStepPlan(plans[k].steps, AI)

\* C4: for one goal, two model outputs whose lines agree on naming search_web
\* and on naming summarize_text give the same plan; every search_web step
\* carries the derived query, every summarize_text step "search results".
C4_ArgumentTextIgnored ==
    /\ \A k \in DOMAIN plans : \A n \in DOMAIN plans[k].steps :
          LET s == plans[k].steps[n]
          IN  /\ s.tool \in {SEARCH_WEB, SUMMARIZE_TEXT}
              /\ s.tool = SEARCH_WEB => s.argument = plans[k].search_query
              /\ s.tool = SUMMARIZE_TEXT => s.argument = SEARCH_RESULTS
    /\ ( /\ Len(plans) = 2
         /\ ReturnedText(plans[1])
         /\ ReturnedText(plans[2])
         /\ plans[1].goal = plans[2].goal
         /\ LineFlags(plans[1].outcome.text) = LineFlags(plans[2].outcome.text) )
       => plans[1].steps = plans[2].steps

C4_Witness ==
    /\ Len(plans) = 2
    /\ ReturnedText(plans[1])
    /\ ReturnedText(plans[2])
    /\ plans[1].outcome.text = SEARCH_WEB \o ARGUMENT_TEXT
    /\ plans[2].outcome.text = MIXED_SEARCH_WEB \o INVALID_TOOL
    /\ plans[1].steps = plans[2].steps
    /\ Len(plans[1].steps) = 1

\* the goal without the known phrase it starts with, if it starts with one
StripLeadingPhrase(goal) ==
    IF StartsWith(goal, FIND_INFORMATION_ABOUT)
    THEN SubSeq(goal, Len(FIND_INFORMATION_ABOUT) + 1, Len(goal))
    ELSE IF StartsWith(goal, RESEARCH)
    THEN SubSeq(goal, Len(RESEARCH) + 1, Len(goal))
    ELSE IF StartsWith(goal, EXPLAIN)
    THEN SubSeq(goal, Len(EXPLAIN) + 1, Len(goal))
    ELSE goal

\* C5 as claimed: the search query is the goal without the known phrase that
\* leads it, every other part kept; a goal that starts with no known phrase
\* is its own search query.
C5_LeadingPhraseOnly ==
    \A k \in DOMAIN plans :
        plans[k].search_query = StripLeadingPhrase(plans[k].goal)

\* C6 as claimed: no plan has more than two steps.
C6_Original ==
    \A k \in DOMAIN plans : Len(plans[k].steps) <= 2

ToolLines(t) == SearchLines(t) \cup SummarizeLines(t)

\* C6 amended: a plan has at most two steps for each line of the model output
\* that names a tool, and two steps when no line names one.
C6_TwoStepsPerToolLine ==
    \A k \in DOMAIN plans :
        LET n == IF ReturnedText(plans[k])
                 THEN Cardinality(ToolLines(plans[k].outcome.text)) ELSE 0
        IN  Len(plans[k].steps) <= (IF n = 0 THEN 2 ELSE 2 * n)

C6_Witness ==
    \E k \in DOMAIN plans :
        /\ ReturnedText(plans[k])
        /\ Cardinality(ToolLines(plans[k].outcome.text)) = 2
        /\ Len(plans[k].steps) = 3

(***************************************************************************)
(* Properties of the executor.                                             *)
(***************************************************************************)
\* the steps executed so far are steps_in[1..Len(results)]
Executed == 1..Len(results)

\* the executed search_web steps before step n
SearchesBefore(n) == {m \in 1..(n - 1) : steps_in[m].tool = SEARCH_WEB}

Last(S) == CHOOSE m \in S : \A k \in S : k <= m

\* C7 as claimed: execute_plan dispatches exactly the first
\* min(len(plan), max(0, max_steps)) steps of the plan, once each, in order.
C7_FirstStepsUpToCap ==
    epc = "done" =>
        /\ Len(dispatched) = Min(Len(steps_in), Max(0, max_steps))
        /\ \A n \in DOMAIN dispatched : dispatched[n].tool = steps_in[n].tool

\* C8: the context holds the result of every executed step n under
\* step_n_result, and last_search_result is the result of the most recently
\* executed search_web step: steps of other tools leave it as it was (absent
\* while no search_web step has run).
C8_ContextRecordsResults ==
    /\ \A n \in Executed :
          /\ StepKey(n) \in DOMAIN context
          /\ context[StepKey(n)] = results[n]
    /\ LET searches == SearchesBefore(Len(results) + 1)
       IN  IF searches = {}
           THEN LAST_SEARCH_RESULT \notin DOMAIN context
           ELSE /\ LAST_SEARCH_RESULT \in DOMAIN context
                /\ context[LAST_SEARCH_RESULT] = results[Last(searches)]

C8_Witness ==
    /\ Len(results) = 3
    /\ steps_in[1].tool = SEARCH_WEB
    /\ steps_in[2].tool = SEARCH_WEB
    /\ steps_in[3].tool = SUMMARIZE_TEXT
    /\ results[1] = RESULT_ONE
    /\ results[2] = RESULT_TWO
    /\ results[3] = RESULT_ONE
    /\ context[LAST_SEARCH_RESULT] = RESULT_TWO
    /\ context[StepKey(3)] = RESULT_ONE

\* C9: a step whose argument is exactly "search results" and that runs after
\* a search_web step is dispatched with the recorded result of the latest
\* such step; every other step is dispatched with its own argument.
C9_SearchResultsSubstituted ==
    /\ Len(dispatched) = Len(results)
    /\ \A n \in DOMAIN dispatched :
          /\ dispatched[n].tool = steps_in[n].tool
          /\ dispatched[n].argument =
                IF steps_in[n].argument = SEARCH_RESULTS /\ SearchesBefore(n) # {}
                THEN results[Last(SearchesBefore(n))]
                ELSE steps_in[n].argument

C9_Witness ==
    /\ Len(dispatched) = 3
    /\ steps_in[1] = Step(SUMMARIZE_TEXT, SEARCH_RESULTS)
    /\ steps_in[2] = Step(SEARCH_WEB, AI)
    /\ steps_in[3] = Step(SUMMARIZE_TEXT, SEARCH_RESULTS)
    /\ results[2] = RESULT_TWO
    /\ dispatched[1].argument = SEARCH_RESULTS
    /\ dispatched[2].argument = AI
    /\ dispatched[3].argument = RESULT_TWO

NumberText == <<<<"1">>, <<"2">>, <<"3">>, <<"4">>, <<"5">>, <<"6">>, <<"7">>, <<"8">>, <<"9">>>>

\* the report expected of results rs from position n on
RECURSIVE ReportFrom(_, _)
ReportFrom(rs, n) ==
    IF n > Len(rs) THEN <<>>
    ELSE (IF n > 1 THEN <<"\n", "\n">> ELSE <<>>)
         \o <<"S","t","e","p"," ">> \o NumberText[n] \o <<" ","r","e","s","u","l","t",":">>
         \o <<"\n">> \o rs[n] \o ReportFrom(rs, n + 1)

\* C10: with exactly one executed step execute_plan returns its result
\* verbatim; otherwise it returns the results in execution order, each after a
\* line "Step n result:", n from 1, with one blank line between them.
C10_AggregatedOutput ==
    epc = "done" =>
        IF Len(results) = 1 THEN output = results[1]
        ELSE output = ReportFrom(results, 1)

C10_Witness ==
    /\ epc = "done"
    /\ Len(results) = 2
    /\ results[1] = RESULT_ONE
    /\ results[2] = RESULT_TWO
    /\ output = <<"S","t","e","p"," ","1"," ","r","e","s","u","l","t",":","\n","r","1",
                  "\n","\n",
                  "S","t","e","p"," ","2"," ","r","e","s","u","l","t",":","\n","r","2">>
\* C12 as claimed: a result that is None or the empty text is replaced with
\* "Tool <tool name> returned no result" before it is recorded.
C12_Original ==
    max_steps >= 0 =>
        \A n \in Executed :
            returned[n] \in {None, <<>>}
                => results[n] = NoResultText(steps_in[n].tool)

\* C12, amended: a result that is None is recorded, in results and in the
\* context, as "Tool <tool name> returned no result"; every other result,
\* the empty text included, is recorded as the tool handed it back.
C12_NoneReplaced ==
    /\ Len(returned) = Len(results)
    /\ \A n \in Executed :
          /\ results[n] = IF returned[n] = None
                          THEN <<"T","o","o","l"," ">> \o steps_in[n].tool
                                   \o <<" ","r","e","t","u","r","n","e","d"," ",
                                        "n","o"," ","r","e","s","u","l","t">>
                          ELSE returned[n]
          /\ context[StepKey(n)] = results[n]

C12_Witness ==
    /\ Len(results) = 2
    /\ steps_in[1].tool = SEARCH_WEB
    /\ returned[1] = None
    /\ results[1] = <<"T","o","o","l"," ","s","e","a","r","c","h","_","w","e","b"," ",
                      "r","e","t","u","r","n","e","d"," ","n","o"," ",
                      "r","e","s","u","l","t">>
    /\ context[LAST_SEARCH_RESULT] = results[1]
    /\ returned[2] = <<>>
    /\ results[2] = <<>>
\* C13 as claimed: in every run of execute_plan on one Executor, a step that
\* no search_web step of the same run precedes reads nothing from the
\* context: it is dispatched with its own argument, never with a
\* last_search_result that an earlier run stored.
C13_NoStaleContext ==
    \A n \in DOMAIN dispatched :
        SearchesBefore(n) = {} => dispatched[n].argument = steps_in[n].argument

(***************************************************************************)
(* Properties of the executor that runs its steps through Tools.           *)
(***************************************************************************)
\* the error strings of the tools: a failed search, a failed summarization,
\* an unknown tool
IsErrorString(text) ==
    \/ StartsWith(text, SearchFailedText(<<>>))
    \/ StartsWith(text, SearchFailedAfterText(MAX_RETRY_ATTEMPTS))
    \/ StartsWith(text, SummarizationFailedText(<<>>))
    \/ StartsWith(text, UnknownToolText(<<>>))

\* C11: an error string a tool hands back is recorded as the result of its
\* step like any other result; a later "search results" step that follows a
\* failed search is dispatched with that search's error string; a run ends
\* only after every step within the cap was dispatched, and its output holds
\* every result, error strings included.
C11_ErrorStringsDoNotAbort ==
    /\ Len(returned) = Len(results)
    /\ \A n \in Executed :
          IsErrorString(returned[n]) =>
              /\ results[n] = returned[n]
              /\ context[StepKey(n)] = returned[n]
    /\ \A n \in DOMAIN dispatched :
          LET searches == SearchesBefore(n)
          IN  (/\ steps_in[n].argument = SEARCH_RESULTS
               /\ searches # {}
               /\ IsErrorString(returned[Last(searches)]))
                  => dispatched[n].argument = returned[Last(searches)]
    /\ epc = "done" =>
          /\ Len(dispatched) >= Min(Len(steps_in), Max(0, max_steps))
          /\ \A n \in DOMAIN dispatched : dispatched[n].tool = steps_in[n].tool
          /\ IF Len(results) = 1 THEN output = results[1]
             ELSE \A n \in DOMAIN results :
                      Contains(output, StepReport(n, results[n]))

C11_Witness ==
    /\ epc = "done"
    /\ steps_in = <<Step(SEARCH_WEB, AI), Step(SUMMARIZE_TEXT, SEARCH_RESULTS),
                    Step(UNKNOWN_TOOL, AI)>>
    /\ Len(results) = 3
    /\ returned[1] = SearchFailedAfterText(MAX_RETRY_ATTEMPTS)
    /\ dispatched[2] = Step(SUMMARIZE_TEXT, SearchFailedAfterText(MAX_RETRY_ATTEMPTS))
    /\ returned[2] = SummarizationFailedText(ERROR_MESSAGE)
    /\ results[3] = UnknownToolText(UNKNOWN_TOOL)
    /\ Contains(output, StepReport(1, SearchFailedAfterText(MAX_RETRY_ATTEMPTS)))
    /\ Contains(output, StepReport(3, UnknownToolText(UNKNOWN_TOOL)))

\* C11: the executor never aborts early: a run that has left its loop has
\* returned, with every step within the cap dispatched, and the error
\* strings of its tool calls are recorded and aggregated like other results.
C11_NeverAbortsEarly ==
    /\ C11_ErrorStringsDoNotAbort
    /\ epc \notin {"idle", "loop"} =>
          /\ epc = "done"
          /\ Len(dispatched) >= Min(Len(steps_in), Max(0, max_steps))

(***************************************************************************)
(* Properties of search_web.                                               *)
(***************************************************************************)
\* the positions of the requests in the log of the call
Requests == {k \in DOMAIN events : events[k].kind = "request"}

SearchReturned == tpc = "done" /\ tool_call.method = "search_web"

\* C14: when every attempt of search_web meets a network error, an HTTP
\* error status or an undecodable body, the call makes exactly 3 requests,
\* sleeps RETRY_DELAY_SECONDS between each two of them and not after the
\* last, and returns "Search failed after 3 attempts: Network error".
C14_RetriesThenFails ==
    (/\ SearchReturned
     /\ \A k \in Requests :
            events[k].outcome.kind \in {"network", "http", "decode"})
        => /\ Cardinality(Requests) = 3
           /\ Len(events) = 5
           /\ \A k \in DOMAIN events :
                  IF k % 2 = 1 THEN events[k].kind = "request"
                  ELSE events[k] = [kind |-> "sleep", seconds |-> RETRY_DELAY_SECONDS]
           /\ tool_ret =
                  <<"S","e","a","r","c","h"," ","f","a","i","l","e","d"," ","a","f",
                    "t","e","r"," ","3"," ","a","t","t","e","m","p","t","s",":"," ",
                    "N","e","t","w","o","r","k"," ","e","r","r","o","r">>

C14_Witness ==
    /\ SearchReturned
    /\ Len(events) = 5
    /\ events[1].outcome.kind = "network"
    /\ events[3].outcome.kind = "http"
    /\ events[5].outcome.kind = "decode"
    /\ tool_ret = SearchFailedAfterText(MAX_RETRY_ATTEMPTS)

\* C15: a request that meets any other exception is the last thing the call
\* does: no request and no sleep follows it, and the call has returned
\* "Search failed: " followed by the message of the exception.
C15_OtherExceptionReturnsAtOnce ==
    \A k \in Requests :
        events[k].outcome.kind = "other" =>
            /\ k = Len(events)
            /\ tpc = "done"
            /\ tool_ret = <<"S","e","a","r","c","h"," ","f","a","i","l","e","d",":"," ">>
                              \o events[k].outcome.message

C15_Witness ==
    /\ SearchReturned
    /\ Len(events) = 3
    /\ events[1].outcome.kind = "network"
    /\ events[2].kind = "sleep"
    /\ events[3].outcome.kind = "other"
    /\ events[3].outcome.message = ERROR_MESSAGE
    /\ tool_ret = <<"S","e","a","r","c","h"," ","f","a","i","l","e","d",":"," ",
                    "b","o","o","m">>

\* the lines C16 expects of a response: the abstract, the answer, and the
\* texts of those of the first three related topics that have one
ExpectedLines(data) ==
    LET topics == data.RelatedTopics
        firstThree == [k \in 1..Min(3, Len(topics)) |-> topics[k]]
        withText == SelectSeq(firstThree,
                              LAMBDA topic : topic.isdict /\ topic.Text \notin {None, <<>>})
    IN  (IF data.Abstract \in {None, <<>>} THEN <<>>
         ELSE <<<<"A","b","s","t","r","a","c","t",":"," ">> \o data.Abstract>>)
        \o (IF data.Answer \in {None, <<>>} THEN <<>>
            ELSE <<<<"A","n","s","w","e","r",":"," ">> \o data.Answer>>)
        \o [k \in 1..Len(withText) |->
                <<"R","e","l","a","t","e","d",":"," ">> \o withText[k].Text]

\* C16: a search that succeeds returns the lines "Abstract: ...",
\* "Answer: ...", "Related: ..." of the sections the response has, in that
\* order and separated by newlines, with at most three Related lines, taken
\* from the first three related topics; a response without any section gives
\* "No detailed results found for '<query>'".
C16_FormattedSections ==
    (SearchReturned /\ events[Len(events)].outcome.kind = "ok") =>
        LET lines == ExpectedLines(events[Len(events)].outcome.data)
        IN  IF lines = <<>>
            THEN tool_ret =
                     <<"N","o"," ","d","e","t","a","i","l","e","d"," ","r","e","s",
                       "u","l","t","s"," ","f","o","u","n","d"," ","f","o","r"," ",
                       "'">> \o tool_call.argument \o <<"'">>
            ELSE /\ SplitLines(tool_ret) = lines
                 /\ Len(lines) <= 5

C16_Witness ==
    /\ SearchReturned
    /\ Len(events) = 1
    /\ events[1].outcome.kind = "ok"
    /\ events[1].outcome.data =
          [Abstract |-> ABSTRACT_BODY, Answer |-> ANSWER_BODY,
           RelatedTopics |-> <<[isdict |-> TRUE, Text |-> TOPIC_ONE],
                               [isdict |-> TRUE, Text |-> None],
                               [isdict |-> TRUE, Text |-> TOPIC_TWO],
                               [isdict |-> TRUE, Text |-> TOPIC_ONE]>>]
    /\ tool_ret =
          <<"A","b","s","t","r","a","c","t",":"," ","a","b","\n","A","n","s","w",
            "e","r",":"," ","4","2","\n","R","e","l","a","t","e","d",":"," ","t",
            "1","\n","R","e","l","a","t","e","d",":"," ","t","2">>\* the request before request k
PreviousRequest(k) ==
    CHOOSE j \in Requests : j < k /\ \A m \in Requests : m < k => m <= j

\* the requests of a call: at most 3; each but the first comes after a
\* request that met a network, HTTP or decode failure and was not the third;
\* none comes after a response that was received and decoded
RequestsBounded ==
    /\ Cardinality(Requests) <= 3
    /\ \A k \in Requests :
          (\E j \in Requests : j < k) =>
              /\ events[PreviousRequest(k)].outcome.kind \in {"network", "http", "decode"}
              /\ Cardinality({j \in Requests : j < k}) < 3
    /\ \A k \in Requests :
          events[k].outcome.kind \in {"ok", "not_object", "bad_topics"}
              => \A j \in Requests : j <= k

\* C22: every call of search_web ends, and it makes at most 3 requests: a
\* further one only after a network or decode failure of an attempt that is
\* not the last, none after a response that was received and decoded.
C22_SearchTerminates ==
    /\ []RequestsBounded
    /\ (tpc = "search") ~> (tpc \in {"done", "raised"})

C22_Witness ==
    /\ SearchReturned
    /\ Cardinality(Requests) = 3
    /\ events[1].outcome.kind = "network"
    /\ events[3].outcome.kind = "decode"
    /\ events[5].outcome.kind = "ok"
    /\ events[5].outcome.data.Abstract = ABSTRACT_BODY

\* C23: whatever the HTTP call yields, a response that is received and
\* decoded but is no object of the expected shape included, search_web
\* returns a text and no exception reaches the executor.
C23_SearchNeverRaises ==
    /\ tpc # "raised"
    /\ epc # "raised"

(***************************************************************************)
(* Properties of summarize_text and of execute_tool.                       *)
(***************************************************************************)
\* the positions of the calls of the model in the log of the call
ModelCalls == {k \in DOMAIN events : events[k].kind = "summarizer"}

SummarizeReturned == tpc = "done" /\ tool_call.method = "summarize_text"

\* text.strip() is empty
OnlyWhitespace(text) == \A k \in DOMAIN text : text[k] \in {" ", "\n", "\t", "\r"}

\* C17: the text the model is called with has at most 800 + 3 characters: it
\* is the first 800 characters of the input followed by "..." when the input
\* has more than 800 characters, and the input itself otherwise.
C17_ModelInputBounded ==
    \A k \in ModelCalls :
        LET text == tool_call.argument
            passed == events[k].text
        IN  /\ Len(passed) <= 800 + 3
            /\ IF Len(text) > 800
               THEN /\ Len(passed) = 803
                    /\ \A j \in 1..800 : passed[j] = text[j]
                    /\ \A j \in 801..803 : passed[j] = "."
               ELSE passed = text

C17_Witness ==
    /\ SummarizeReturned
    /\ Len(tool_call.argument) = 801
    /\ tool_call.argument[801] = "z"
    /\ ModelCalls = {1}
    /\ Len(events[1].text) = 803
    /\ events[1].text[800] = " "
    /\ events[1].text[801] = "."

\* C18: for an input that is empty or only whitespace summarize_text returns
\* "No text provided to summarize" and the model is not called.
C18_BlankInputNotSummarized ==
    (SummarizeReturned /\ OnlyWhitespace(tool_call.argument)) =>
        /\ ModelCalls = {}
        /\ tool_ret =
              <<"N","o"," ","t","e","x","t"," ","p","r","o","v","i","d","e","d"," ",
                "t","o"," ","s","u","m","m","a","r","i","z","e">>

C18_Witness ==
    /\ SummarizeReturned
    /\ tool_call.argument = <<"\n", "\t">>
    /\ events = <<>>
    /\ tool_ret = NO_TEXT_PROVIDED

\* C19: for an input that is not blank summarize_text calls the model once
\* and returns: the text of the first summary when the model answers a
\* non-empty list, "Summary could not be generated" when it answers an empty
\* list or no list, "Summarization failed: <message>" when it raises.
C19_SummaryOrErrorText ==
    (tool_call # <<>> /\ tool_call.method = "summarize_text"
         /\ ~OnlyWhitespace(tool_call.argument)) =>
        /\ tpc = "done"
        /\ ModelCalls = {1}
        /\ Len(events) = 1
        /\ LET answer == events[1].outcome
           IN  tool_ret =
                   IF answer.kind = "raise"
                   THEN <<"S","u","m","m","a","r","i","z","a","t","i","o","n"," ",
                          "f","a","i","l","e","d",":"," ">> \o answer.message
                   ELSE IF answer.kind = "list" /\ Len(answer.summaries) > 0
                   THEN Head(answer.summaries)
                   ELSE <<"S","u","m","m","a","r","y"," ","c","o","u","l","d"," ",
                          "n","o","t"," ","b","e"," ","g","e","n","e","r","a","t",
                          "e","d">>

C19_Witness ==
    /\ SummarizeReturned
    /\ tool_call.argument = AI
    /\ ModelCalls = {1}
    /\ events[1].outcome.kind = "list"
    /\ events[1].outcome.summaries = <<SUMMARY_TWO, SUMMARY_ONE>>
    /\ tool_ret = SUMMARY_TWO

\* C20: execute_tool hands the argument unchanged to search_web for the name
\* "search_web" and to summarize_text for the name "summarize_text", and to
\* no other method; for every other name it calls neither and returns
\* "Unknown tool: <name>".
C20_DispatchByName ==
    tool_call # <<>> =>
        /\ tool_call.passed = tool_call.argument
        /\ IF tool_call.tool_name = <<"s","e","a","r","c","h","_","w","e","b">>
           THEN /\ tool_call.method = "search_web"
                /\ ModelCalls = {}
                /\ \A k \in Requests : events[k].query = tool_call.argument
           ELSE IF tool_call.tool_name =
                       <<"s","u","m","m","a","r","i","z","e","_","t","e","x","t">>
           THEN /\ tool_call.method = "summarize_text"
                /\ Requests = {}
                /\ tpc = "done"
                /\ tool_ret = summarize_text(tool_call.argument,
                                             IF ModelCalls = {} THEN <<>>
                                             ELSE events[1].outcome).value
           ELSE /\ tool_call.method = "none"
                /\ events = <<>>
                /\ tpc = "done"
                /\ tool_ret = <<"U","n","k","n","o","w","n"," ","t","o","o","l",":"," ">>
                                  \o tool_call.tool_name

C20_Witness ==
    /\ tpc = "done"
    /\ tool_call.tool_name = MIXED_SEARCH_WEB
    /\ tool_call.argument = AI
    /\ events = <<>>
    /\ tool_ret = UnknownToolText(MIXED_SEARCH_WEB)
(***************************************************************************)
(* Properties of main().                                                   *)
(***************************************************************************)
\* the trimmed goal fails validation: it is empty, has fewer than 5 or more
\* than 200 characters, holds a character of the blocklist, or holds a math
\* or code keyword in any case
FailsValidation(goal) ==
    \/ Len(goal) = 0
    \/ Len(goal) < 5
    \/ Len(goal) > 200
    \/ \E k \in DOMAIN goal : goal[k] \in {"<", ">", "&", "|", ";", GRAVE}
    \/ \E keyword \in math_patterns \cup code_patterns :
           \E k \in 0..(Len(goal) - Len(keyword)) :
               \A j \in 1..Len(keyword) : LowerChar(goal[k + j]) = keyword[j]

\* C21: once main() has checked a goal that fails validation it has exited
\* with a status that is not 0, Planner and Executor were not constructed,
\* and no plan was generated, no step executed and no request made.
C21_InvalidGoalExitsEarly ==
    (cli.pc # "start" /\ FailsValidation(cli.goal)) =>
        /\ cli.pc = "exited"
        /\ cli.status # 0
        /\ ~cli.constructed
        /\ plans = <<>>
        /\ epc = "idle"
        /\ dispatched = <<>>
        /\ tpc = "idle"
        /\ events = <<>>

C21_Witness ==
    /\ cli.pc = "exited"
    /\ cli.goal = <<"C","a","l","c","u","l","a","t","e"," ","A","I">>
    /\ cli.status = 1
    /\ ~cli.constructed
    /\ plans = <<>>

====
